---- MODULE Spec2Model ----
(***************************************************************************)
(* ch8asm: a two-pass assembler for Chip-8.  Pass 1 (PrepLexer driven by   *)
(* the Preprocessor) computes label addresses, Pass 2 (AsmLexer driven by  *)
(* the Assembler) parses the same text and appends to the binary.          *)
(* Text is a sequence of one-character strings; positions are 0-based as   *)
(* in the source, so the character at position p is text[p + 1].           *)
(***************************************************************************)
EXTENDS Integers, Sequences, FiniteSets, TLC

(***************************************************************************)
(* Characters                                                              *)
(***************************************************************************)
\* the '\0' sentinel both lexers store in cur_char at the end of the text
NUL == "NUL"

LowerSeq == <<"a", "b", "c", "d", "e", "f", "g", "h", "i", "j", "k", "l", "m", "n", "o", "p", "q", "r", "s", "t", "u", "v", "w", "x", "y", "z">>
UpperSeq == <<"A", "B", "C", "D", "E", "F", "G", "H", "I", "J", "K", "L", "M", "N", "O", "P", "Q", "R", "S", "T", "U", "V", "W", "X", "Y", "Z">>
DigitSeq == <<"0", "1", "2", "3", "4", "5", "6", "7", "8", "9">>

SeqRange(s) == {s[i] : i \in 1..Len(s)}
IndexIn(s, c) == CHOOSE i \in 1..Len(s) : s[i] = c

\* char::is_ascii_whitespace: space, tab, line feed, form feed, carriage return
IsWhitespace(c) == c \in {" ", "\t", "\n", "\f", "\r"}
IsNewline(c) == c \in {"\n", "\r"}
IsAlpha(c) == c \in SeqRange(LowerSeq) \cup SeqRange(UpperSeq)
IsDigit(c) == c \in SeqRange(DigitSeq)
IsHexDigit(c) == IsDigit(c) \/ c \in {"a", "b", "c", "d", "e", "f", "A", "B", "C", "D", "E", "F"}
IsBinDigit(c) == c \in {"0", "1"}

\* char::to_ascii_uppercase
ToUpper(c) == IF c \in SeqRange(LowerSeq) THEN UpperSeq[IndexIn(LowerSeq, c)] ELSE c

\* value of one digit in radix 16 (also used for radix 10 and 2)
DigitVal(c) ==
    IF IsDigit(c) THEN IndexIn(DigitSeq, c) - 1
    ELSE IndexIn(<<"A", "B", "C", "D", "E", "F">>, ToUpper(c)) + 9

\* positional value of a digit string in the given radix
RECURSIVE RadixVal(_, _)
RadixVal(buf, radix) ==
    IF buf = <<>> THEN 0
    ELSE RadixVal(SubSeq(buf, 1, Len(buf) - 1), radix) * radix + DigitVal(buf[Len(buf)])

MEM_START == 512
COMMENT_CHAR == ";"
DEC_LIT_CHAR == "#"
HEX_LIT_CHAR == "$"
BIN_LIT_CHAR == "%"

U16Max == 65535
U8Max == 255

(***************************************************************************)
(* Variant, Token, errors                                                  *)
(***************************************************************************)
VByte(b) == [tag |-> "Byte", num |-> b, text |-> <<>>]
VWord(w) == [tag |-> "Word", num |-> w, text |-> <<>>]
VText(t) == [tag |-> "Text", num |-> 0, text |-> t]

TokenTypes == {"Instruction", "Label", "LblDef", "Register", "DecLit", "HexLit",
               "BinLit", "SkipCond", "Comma", "Period", "EndOfInput"}

Token(ttype, value) == [ttype |-> ttype, value |-> value]

NoToken == Token("None", VText(<<>>))

\* one shape for every error value: kind, position, two names, one text
ErrRec(kind, line, col, a, b, txt) ==
    [kind |-> kind, line |-> line, col |-> col, a |-> a, b |-> b, txt |-> txt]
NoErr == ErrRec("None", 0, 0, "", "", <<>>)
LexerError(line, col, chr) == ErrRec("Lexer", line, col, chr, "", <<>>)
ParseError(expected, actual, line, col) == ErrRec("Parser", line, col, expected, actual, <<>>)
OpcodeError(instr, line, col) == ErrRec("Opcode", line, col, "", "", instr)
ArgError(reg, instr, line, col) == ErrRec("Argument", line, col, reg, instr, <<>>)
SkipError(st, line, col) == ErrRec("Skip", line, col, st, "", <<>>)
AddrError(label) == ErrRec("Address", 0, 0, "", "", label)
\* a Rust panic (unwrap on None/Err, panic!): the process aborts
Panic(what) == ErrRec("Panic", 0, 0, what, "", <<>>)

(***************************************************************************)
(* AsmLexer                                                                *)
(***************************************************************************)
AsmLexerNew(new_text) ==
    [text |-> new_text, pos |-> 0, cur_char |-> new_text[1], line |-> 1, col |-> 1]

AsmAdvance(L) ==
    LET p == L.pos + 1 IN
    IF p > Len(L.text) - 1
    THEN [L EXCEPT !.pos = p, !.cur_char = NUL]
    ELSE [L EXCEPT !.pos = p, !.col = @ + 1, !.cur_char = L.text[p + 1]]

RECURSIVE AsmSkipWhitespace(_)
AsmSkipWhitespace(L) ==
    IF L.cur_char = NUL THEN L
    ELSE IF ~IsWhitespace(L.cur_char) THEN L
    ELSE LET L1 == IF IsNewline(L.cur_char)
                   THEN AsmAdvance([L EXCEPT !.line = @ + 1, !.col = 1])
                   ELSE L
         IN AsmSkipWhitespace(AsmAdvance(L1))

RECURSIVE AsmCommentLoop(_)
AsmCommentLoop(L) ==
    IF L.cur_char # "\n" /\ L.cur_char # "\r" /\ L.cur_char # NUL
    THEN AsmCommentLoop(AsmAdvance(L))
    ELSE L

AsmConsumeComment(L) == AsmCommentLoop(AsmAdvance(L))

\* symbol(): collects alphabetic characters as written
RECURSIVE AsmSymbolLoop(_, _)
AsmSymbolLoop(L, ret) ==
    IF IsAlpha(L.cur_char) /\ L.cur_char # NUL
    THEN AsmSymbolLoop(AsmAdvance(L), Append(ret, L.cur_char))
    ELSE [lexer |-> L, str |-> ret]

AsmSymbol(L) == AsmSymbolLoop(L, <<>>)

RECURSIVE AsmLabelLoop(_, _)
AsmLabelLoop(L, ret) ==
    IF IsAlpha(L.cur_char) /\ L.cur_char # NUL
    THEN AsmLabelLoop(AsmAdvance(L), Append(ret, ToUpper(L.cur_char)))
    ELSE [lexer |-> L, str |-> ret]

\* a colon right after the name is consumed and kept as the last character
AsmLabelColon(r) ==
    IF r.lexer.cur_char = ":"
    THEN [lexer |-> AsmAdvance(r.lexer), str |-> Append(r.str, ":")]
    ELSE r

AsmLabel(L) == AsmLabelColon(AsmLabelLoop(AsmAdvance(L), <<"_">>))

AsmRegister(L) ==
    IF L.cur_char = "I"
    THEN [lexer |-> AsmAdvance(L), str |-> <<"I">>]
    ELSE LET L1 == AsmAdvance(L) IN
         [lexer |-> AsmAdvance(L1), str |-> <<"V", L1.cur_char>>]

RECURSIVE AsmDigitLoop(_, _, _)
AsmDigitLoop(L, buf, hex) ==
    IF (IF hex THEN IsHexDigit(L.cur_char) ELSE IsDigit(L.cur_char)) /\ L.cur_char # NUL
    THEN AsmDigitLoop(AsmAdvance(L), Append(buf, L.cur_char), hex)
    ELSE [lexer |-> L, str |-> buf]

\* u16::from_str_radix(&buf, radix).unwrap(): panics on an empty buffer and
\* on a value above 65535
ParseU16(r, radix) ==
    IF r.str = <<>> \/ RadixVal(r.str, radix) > U16Max
    THEN [lexer |-> r.lexer, ok |-> FALSE, val |-> 0]
    ELSE [lexer |-> r.lexer, ok |-> TRUE, val |-> RadixVal(r.str, radix)]

AsmDecLit(L) == ParseU16(AsmDigitLoop(AsmAdvance(L), <<>>, FALSE), 10)

AsmHexLit(L) == ParseU16(AsmDigitLoop(AsmAdvance(L), <<>>, TRUE), 16)

RECURSIVE AsmBinLoop(_, _, _)
AsmBinLoop(L, buf, i) ==
    IF i < 8
    THEN AsmBinLoop(AsmAdvance(L), Append(buf, L.cur_char), i + 1)
    ELSE [lexer |-> L, str |-> buf]

\* u8::from_str_radix(&buf, 2).unwrap(): panics unless all 8 characters are
\* binary digits
ParseU8(r) ==
    IF \E i \in 1..Len(r.str) : ~IsBinDigit(r.str[i])
    THEN [lexer |-> r.lexer, ok |-> FALSE, val |-> 0]
    ELSE [lexer |-> r.lexer, ok |-> TRUE, val |-> RadixVal(r.str, 2)]

AsmBinLit(L) == ParseU8(AsmBinLoop(AsmAdvance(L), <<>>, 0))

SkipWords == {<<"E", "Q">>, <<"N", "E">>, <<"K", "E", "Y">>, <<"N", "O", "K", "E", "Y">>}

LexOk(L, tok) == [lexer |-> L, tok |-> tok, err |-> NoErr]
LexFail(L, err) == [lexer |-> L, tok |-> NoToken, err |-> err]

\* a label text ending in a colon is a definition, returned without the colon
LabelToken(r) ==
    IF r.str[Len(r.str)] = ":"
    THEN LexOk(r.lexer, Token("LblDef", VText(SubSeq(r.str, 1, Len(r.str) - 1))))
    ELSE LexOk(r.lexer, Token("Label", VText(r.str)))

SymbolToken(r) ==
    IF r.str \in SkipWords
    THEN LexOk(r.lexer, Token("SkipCond", VText(r.str)))
    ELSE LexOk(r.lexer, Token("Instruction", VText(r.str)))

RegisterToken(r) == LexOk(r.lexer, Token("Register", VText(r.str)))

WordToken(r, ttype, what) ==
    IF r.ok THEN LexOk(r.lexer, Token(ttype, VWord(r.val)))
    ELSE LexFail(r.lexer, Panic(what))

ByteToken(r, ttype, what) ==
    IF r.ok THEN LexOk(r.lexer, Token(ttype, VByte(r.val)))
    ELSE LexFail(r.lexer, Panic(what))

\* a lexer that starts over once the text is exhausted
EndOfInputRewound(L) ==
    LexOk([L EXCEPT !.pos = 0, !.cur_char = L.text[1]], Token("EndOfInput", VText(<<>>)))

\* the text is exhausted: the lexer is left as it is
EndOfInput(L) == LexOk(L, Token("EndOfInput", VText(<<>>)))

RECURSIVE AsmGetNextToken(_)
AsmGetNextToken(L) ==
    IF L.cur_char = NUL THEN EndOfInput(L)
    ELSE IF IsWhitespace(L.cur_char) THEN AsmGetNextToken(AsmSkipWhitespace(L))
    ELSE IF L.cur_char = "," THEN LexOk(AsmAdvance(L), Token("Comma", VText(<<",">>)))
    ELSE IF L.cur_char = "." THEN LexOk(AsmAdvance(L), Token("Period", VText(<<".">>)))
    ELSE IF L.cur_char = COMMENT_CHAR THEN AsmGetNextToken(AsmConsumeComment(L))
    ELSE IF ToUpper(L.cur_char) = "V" \/ ToUpper(L.cur_char) = "I"
         THEN RegisterToken(AsmRegister(L))
    ELSE IF L.cur_char = "_" THEN LabelToken(AsmLabel(L))
    ELSE IF IsAlpha(L.cur_char) THEN SymbolToken(AsmSymbol(L))
    ELSE IF L.cur_char = DEC_LIT_CHAR THEN WordToken(AsmDecLit(L), "DecLit", "dec_lit")
    ELSE IF L.cur_char = HEX_LIT_CHAR THEN WordToken(AsmHexLit(L), "HexLit", "hex_lit")
    ELSE IF L.cur_char = BIN_LIT_CHAR THEN ByteToken(AsmBinLit(L), "BinLit", "bin_lit")
    ELSE LexFail(L, LexerError(L.line, L.col, L.cur_char))

(***************************************************************************)
(* PrepLexer (Pass 1)                                                      *)
(***************************************************************************)
PrepLexerNew(new_text) ==
    [text |-> new_text, cur_char |-> new_text[1], pos |-> 0, line |-> 1, col |-> 1,
     addr |-> MEM_START, nib_count |-> 0]

PrepAdvance(P) ==
    LET p == P.pos + 1 IN
    IF p > Len(P.text) - 1
    THEN [P EXCEPT !.pos = p, !.cur_char = NUL]
    ELSE [P EXCEPT !.pos = p, !.cur_char = P.text[p + 1]]

RECURSIVE PrepSkipWhitespace(_)
PrepSkipWhitespace(P) ==
    IF P.cur_char = NUL THEN P
    ELSE IF ~IsWhitespace(P.cur_char) THEN P
    ELSE LET P1 == IF IsNewline(P.cur_char)
                   THEN PrepAdvance([P EXCEPT !.line = @ + 1, !.col = 1])
                   ELSE P
         IN PrepSkipWhitespace(PrepAdvance(P1))

RECURSIVE PrepCommentLoop(_)
PrepCommentLoop(P) ==
    IF P.cur_char # "\n" /\ P.cur_char # "\r" /\ P.cur_char # NUL
    THEN PrepCommentLoop(PrepAdvance(P))
    ELSE P

PrepConsumeComment(P) == PrepCommentLoop(PrepAdvance(P))

\* an update that keeps the odd nibble pending
UpdateAddrKeepOdd(P) ==
    IF P.nib_count >= 2
    THEN [P EXCEPT !.nib_count = @ % 2, !.addr = @ + (P.nib_count \div 2)]
    ELSE P

\* floor(nib_count / 2) bytes once at least two nibbles are pending
UpdateAddr(P) ==
    IF P.nib_count >= 2
    THEN [P EXCEPT !.nib_count = 0, !.addr = @ + (P.nib_count \div 2)]
    ELSE P

ConsumeRegister(P) ==
    [PrepAdvance(IF P.cur_char # "I" THEN PrepAdvance(P) ELSE P) EXCEPT !.nib_count = @ + 1]

RECURSIVE PrepInstrLoop(_, _)
PrepInstrLoop(P, op) ==
    IF (IsAlpha(P.cur_char) \/ P.cur_char = ".") /\ ~IsWhitespace(P.cur_char)
    THEN PrepInstrLoop(PrepAdvance(P), Append(op, ToUpper(P.cur_char)))
    ELSE [lexer |-> P, str |-> op]

\* CLS and RET count as a whole two-byte word, any other mnemonic as one byte
InstrNibbles(r) ==
    IF r.str = <<"C", "L", "S">> \/ r.str = <<"R", "E", "T">>
    THEN [r.lexer EXCEPT !.nib_count = @ + 4]
    ELSE [r.lexer EXCEPT !.nib_count = @ + 2]

ConsumeInstr(P) == InstrNibbles(PrepInstrLoop(P, <<>>))

RECURSIVE PrepDigitLoop(_, _, _)
PrepDigitLoop(P, buf, hex) ==
    IF (IF hex THEN IsHexDigit(P.cur_char) ELSE IsDigit(P.cur_char))
    THEN PrepDigitLoop(PrepAdvance(P), Append(buf, P.cur_char), hex)
    ELSE [lexer |-> P, str |-> buf]

\* ceil(log2(v)) for v >= 1: the least k with 2^k >= v
RECURSIVE CeilLog2From(_, _)
CeilLog2From(v, k) == IF 2^k >= v THEN k ELSE CeilLog2From(v, k + 1)

\* (log2(v).ceil() / 4.0).ceil() as u32; log2(0) is -inf, which the cast
\* saturates to 0
DecNibbles(v) == IF v = 0 THEN 0 ELSE (CeilLog2From(v, 0) + 3) \div 4

\* sum.parse::<f32>().unwrap() panics when no digit follows the sigil
DecLitNibbles(r) ==
    IF r.str = <<>>
    THEN [lexer |-> r.lexer, ok |-> FALSE]
    ELSE [lexer |-> [r.lexer EXCEPT !.nib_count = @ + DecNibbles(RadixVal(r.str, 10))],
          ok |-> TRUE]

ConsumeDecLit(P) == DecLitNibbles(PrepDigitLoop(PrepAdvance(P), <<>>, FALSE))

HexLitNibbles(r) == [r.lexer EXCEPT !.nib_count = @ + Len(r.str)]

ConsumeHexLit(P) == HexLitNibbles(PrepDigitLoop(PrepAdvance(P), <<>>, TRUE))

RECURSIVE PrepBinLoop(_, _)
PrepBinLoop(P, i) == IF i < 8 THEN PrepBinLoop(PrepAdvance(P), i + 1) ELSE P

ConsumeBinLit(P) == [PrepBinLoop(PrepAdvance(P), 0) EXCEPT !.nib_count = @ + 2]

\* consume_label(): collects alphabetic characters as written
RECURSIVE PrepLabelLoop(_, _)
PrepLabelLoop(P, ret) ==
    IF IsAlpha(P.cur_char) /\ ~IsWhitespace(P.cur_char)
    THEN PrepLabelLoop(PrepAdvance(P), Append(ret, P.cur_char))
    ELSE [lexer |-> P, str |-> ret]

PrepLabelColon(r) ==
    IF r.lexer.cur_char = ":"
    THEN [lexer |-> PrepAdvance(r.lexer), str |-> Append(r.str, ":")]
    ELSE r

ConsumeLabel(P) == PrepLabelColon(PrepLabelLoop(PrepAdvance(P), <<"_">>))

\* a definition costs nothing; a reference costs two nibbles
PrepLabelToken(r) ==
    IF r.str[Len(r.str)] = ":"
    THEN LexOk(r.lexer, Token("LblDef", VText(SubSeq(r.str, 1, Len(r.str) - 1))))
    ELSE LexOk(UpdateAddr([r.lexer EXCEPT !.nib_count = @ + 2]),
               Token("Label", VText(r.str)))

RECURSIVE PrepGetNextToken(_)
PrepDecLit(r) ==
    IF r.ok THEN PrepGetNextToken(UpdateAddr(r.lexer))
    ELSE LexFail(r.lexer, Panic("consume_dec_lit"))

PrepGetNextToken(P) ==
    IF P.cur_char = NUL THEN LexOk(P, Token("EndOfInput", VText(<<>>)))
    ELSE IF IsWhitespace(P.cur_char) THEN PrepGetNextToken(PrepSkipWhitespace(P))
    ELSE IF P.cur_char = "," THEN PrepGetNextToken(PrepAdvance(P))
    ELSE IF P.cur_char = "." THEN PrepGetNextToken(PrepAdvance(P))
    ELSE IF P.cur_char = COMMENT_CHAR THEN PrepGetNextToken(PrepConsumeComment(P))
    ELSE IF P.cur_char = "V" \/ P.cur_char = "I"
         THEN PrepGetNextToken(UpdateAddr(ConsumeRegister(P)))
    ELSE IF IsAlpha(P.cur_char) THEN PrepGetNextToken(UpdateAddr(ConsumeInstr(P)))
    ELSE IF P.cur_char = DEC_LIT_CHAR THEN PrepDecLit(ConsumeDecLit(P))
    ELSE IF P.cur_char = HEX_LIT_CHAR THEN PrepGetNextToken(UpdateAddr(ConsumeHexLit(P)))
    ELSE IF P.cur_char = BIN_LIT_CHAR THEN PrepGetNextToken(UpdateAddr(ConsumeBinLit(P)))
    ELSE IF P.cur_char = "_" THEN PrepLabelToken(ConsumeLabel(P))
    ELSE LexFail(P, LexerError(P.line, P.col, P.cur_char))

\* get_next_token, one iteration of its loop: the iteration either returns
\* (a token or an error) or goes round again with nothing returned
PrepMore(P) == [lexer |-> P, tok |-> NoToken, err |-> NoErr]

PrepDecStep(r) ==
    IF r.ok THEN PrepMore(UpdateAddr(r.lexer))
    ELSE LexFail(r.lexer, Panic("consume_dec_lit"))

PrepStep(P) ==
    IF P.cur_char = NUL THEN LexOk(P, Token("EndOfInput", VText(<<>>)))
    ELSE IF IsWhitespace(P.cur_char) THEN PrepMore(PrepSkipWhitespace(P))
    ELSE IF P.cur_char = "," THEN PrepMore(PrepAdvance(P))
    ELSE IF P.cur_char = "." THEN PrepMore(PrepAdvance(P))
    ELSE IF P.cur_char = COMMENT_CHAR THEN PrepMore(PrepConsumeComment(P))
    ELSE IF P.cur_char = "V" \/ P.cur_char = "I"
         THEN PrepMore(UpdateAddr(ConsumeRegister(P)))
    ELSE IF IsAlpha(P.cur_char) THEN PrepMore(UpdateAddr(ConsumeInstr(P)))
    ELSE IF P.cur_char = DEC_LIT_CHAR THEN PrepDecStep(ConsumeDecLit(P))
    ELSE IF P.cur_char = HEX_LIT_CHAR THEN PrepMore(UpdateAddr(ConsumeHexLit(P)))
    ELSE IF P.cur_char = BIN_LIT_CHAR THEN PrepMore(UpdateAddr(ConsumeBinLit(P)))
    ELSE IF P.cur_char = "_" THEN PrepLabelToken(ConsumeLabel(P))
    ELSE LexFail(P, LexerError(P.line, P.col, P.cur_char))

(***************************************************************************)
(* AddrTable                                                               *)
(***************************************************************************)
\* data is kept as a set of <<label, address>> pairs, one per label
AddrTableNew == [size |-> 0, data |-> {}]

\* a table in which the first definition of a label wins
AddEntryKeepFirst(t, label, addr) ==
    [size |-> t.size + 1,
     data |-> IF \E e \in t.data : e[1] = label
              THEN t.data
              ELSE t.data \cup {<<label, addr>>}]

AddEntry(t, label, addr) ==
    [size |-> t.size + 1,
     data |-> {e \in t.data : e[1] # label} \cup {<<label, addr>>}]

GetSize(t) == t.size

HasEntry(t, label) == \E e \in t.data : e[1] = label

GetEntry(t, label) ==
    IF HasEntry(t, label)
    THEN [ok |-> TRUE, addr |-> (CHOOSE e \in t.data : e[1] = label)[2]]
    ELSE [ok |-> FALSE, addr |-> 0]

(***************************************************************************)
(* Assembler (Pass 2): the parser state is the lexer and the current token *)
(***************************************************************************)
RegNames == <<"V0", "V1", "V2", "V3", "V4", "V5", "V6", "V7",
              "V8", "V9", "VA", "VB", "VC", "VD", "VE", "VF">>

\* an abstract instruction handed to Binary::add_instruction
Instr(op, vx, vy, nn, st, form) ==
    [op |-> op, vx |-> vx, vy |-> vy, nn |-> nn, st |-> st, form |-> form]
NoInstr == Instr("None", "", "", 0, "", "")

POk(A, val) == [asm |-> A, err |-> NoErr, val |-> val]
PFail(A, err) == [asm |-> A, err |-> err, val |-> 0]
\* the Address Table lookup an instruction made (label text, result), if any
NoLook == [made |-> FALSE, label |-> <<>>, ok |-> FALSE, addr |-> 0]
Look(label, g) == [made |-> TRUE, label |-> label, ok |-> g.ok, addr |-> g.addr]

IOk(A, ins) == [asm |-> A, err |-> NoErr, instr |-> ins, look |-> NoLook]
IFail(A, err) == [asm |-> A, err |-> err, instr |-> NoInstr, look |-> NoLook]
WithLook(r, look) == [r EXCEPT !.look = look]

Line(A) == A.lexer.line
Col(A) == A.lexer.col

\* the ? operator: an error (or a panic) ends the enclosing rule at once
PTry(r, K(_)) == IF r.err.kind # "None" THEN PFail(r.asm, r.err) ELSE K(r)
ITry(r, K(_)) == IF r.err.kind # "None" THEN IFail(r.asm, r.err) ELSE K(r)
ITryLook(r, K(_)) ==
    IF r.err.kind # "None" THEN WithLook(IFail(r.asm, r.err), r.look) ELSE K(r)

EatNext(A, lr) ==
    IF lr.err.kind # "None"
    THEN [asm |-> [A EXCEPT !.lexer = lr.lexer], err |-> lr.err]
    ELSE [asm |-> [lexer |-> lr.lexer, cur_token |-> lr.tok], err |-> NoErr]

\* an eat that takes the next token whatever the current one is
EatUnchecked(A, ttype) == EatNext(A, AsmGetNextToken(A.lexer))

Eat(A, ttype) ==
    IF A.cur_token.ttype = ttype
    THEN EatNext(A, AsmGetNextToken(A.lexer))
    ELSE [asm |-> A, err |-> ParseError(ttype, A.cur_token.ttype, Line(A), Col(A))]

DecLitP(A) == PTry(Eat(A, "DecLit"), LAMBDA e : POk(e.asm, A.cur_token.value.num))

HexLitP(A) == PTry(Eat(A, "HexLit"), LAMBDA e : POk(e.asm, A.cur_token.value.num))

BinLitP(A) == PTry(Eat(A, "BinLit"), LAMBDA e : POk(e.asm, A.cur_token.value.num))

Constant(A) ==
    IF A.cur_token.ttype = "DecLit" THEN DecLitP(A)
    ELSE IF A.cur_token.ttype = "HexLit" THEN HexLitP(A)
    ELSE BinLitP(A)

LabelFound(B, lstr, g) ==
    IF g.ok
    THEN [asm |-> B, err |-> NoErr, val |-> g.addr, look |-> Look(lstr, g)]
    ELSE [asm |-> B, err |-> AddrError(lstr), val |-> 0, look |-> Look(lstr, g)]

LabelEaten(e, lstr, addrs) ==
    IF e.err.kind # "None"
    THEN [asm |-> e.asm, err |-> e.err, val |-> 0, look |-> NoLook]
    ELSE LabelFound(e.asm, lstr, GetEntry(addrs, lstr))

LabelP(A, addrs) == LabelEaten(Eat(A, "Label"), A.cur_token.value.text, addrs)

RegisterOf(B, rtext) ==
    IF rtext[1] = "I" THEN POk(B, "I")
    ELSE IF IsDigit(rtext[2]) \/ rtext[2] \in {"A", "B", "C", "D", "E", "F"}
         THEN POk(B, RegNames[DigitVal(rtext[2]) + 1])
         ELSE PFail(B, Panic("Bad register index"))

RegisterP(A) ==
    PTry(Eat(A, "Register"), LAMBDA e : RegisterOf(e.asm, A.cur_token.value.text))

\* the two comparison conditions exchanged
SkiptypeSwapped(B, skstr) ==
    IF skstr = <<"E", "Q">> THEN POk(B, "NotEquals")
    ELSE IF skstr = <<"N", "E">> THEN POk(B, "Equals")
    ELSE IF skstr = <<"K", "D">> THEN POk(B, "KeyDown")
    ELSE IF skstr = <<"K", "U">> THEN POk(B, "KeyUp")
    ELSE PFail(B, Panic("Unknown skip type"))

SkiptypeOf(B, skstr) ==
    IF skstr = <<"E", "Q">> THEN POk(B, "Equals")
    ELSE IF skstr = <<"N", "E">> THEN POk(B, "NotEquals")
    ELSE IF skstr = <<"K", "D">> THEN POk(B, "KeyDown")
    ELSE IF skstr = <<"K", "U">> THEN POk(B, "KeyUp")
    ELSE PFail(B, Panic("Unknown skip type"))

Skiptype(A) ==
    PTry(Eat(A, "SkipCond"), LAMBDA e : SkiptypeOf(e.asm, A.cur_token.value.text))

IsLitType(ttype) == ttype \in {"HexLit", "DecLit", "BinLit"}
IsKeyType(st) == st \in {"KeyUp", "KeyDown"}

\* the index register where a general register is required
NotIndex(x, name, K(_)) ==
    IF x.val = "I" THEN IFail(x.asm, ArgError("I", name, Line(x.asm), Col(x.asm)))
    ELSE K(x)

\* JMP, CALL: a label operand only
LabelRule(A, addrs, name) ==
    ITryLook(LabelP(A, addrs), LAMBDA l :
        WithLook(IOk(l.asm, Instr(name, "", "", l.val, "", "address")), l.look))

JpcRule(A, addrs) ==
    IF A.cur_token.ttype = "Label"
    THEN ITryLook(LabelP(A, addrs), LAMBDA l :
            WithLook(IOk(l.asm, Instr("JPC", "", "", l.val, "", "address")), l.look))
    ELSE ITry(Constant(A), LAMBDA k :
            IOk(k.asm, Instr("JPC", "", "", k.val, "", "address")))

\* SKIP after the first register: the comma for EQ/NE, then the second operand
SkipOperand(C, vx, st) ==
    IF C.cur_token.ttype = "Register"
    THEN ITry(RegisterP(C), LAMBDA y :
         NotIndex(y, "SKIP", LAMBDA y2 :
         IF IsKeyType(st)
         THEN IFail(y.asm, SkipError(st, Line(y.asm), Col(y.asm)))
         ELSE IOk(y.asm, Instr("SKIP", vx, y.val, 0, st, "register"))))
    ELSE IF IsLitType(C.cur_token.ttype)
    THEN ITry(Constant(C), LAMBDA k :
         IF IsKeyType(st)
         THEN IFail(k.asm, SkipError(st, Line(k.asm), Col(k.asm)))
         ELSE IOk(k.asm, Instr("SKIP", vx, "", k.val % 256, st, "constant")))
    ELSE IF ~IsKeyType(st)
         THEN IFail(C, SkipError(st, Line(C), Col(C)))
         ELSE IOk(C, Instr("SKIP", vx, "", 0, st, "key"))

SkipRule(A) ==
    ITry(Eat(A, "Period"), LAMBDA p :
    ITry(Skiptype(p.asm), LAMBDA s :
    ITry(RegisterP(s.asm), LAMBDA x :
    NotIndex(x, "SKIP", LAMBDA x2 :
    IF s.val = "Equals" \/ s.val = "NotEquals"
    THEN ITry(Eat(x.asm, "Comma"), LAMBDA c : SkipOperand(c.asm, x.val, s.val))
    ELSE SkipOperand(x.asm, x.val, s.val)))))

\* MOV after the comma: register, label or constant source
MovSource(C, vx, addrs) ==
    IF C.cur_token.ttype = "Register"
    THEN IF vx = "I" THEN IFail(C, ArgError(vx, "MOV", Line(C), Col(C)))
         ELSE ITry(RegisterP(C), LAMBDA y :
              NotIndex(y, "MOV", LAMBDA y2 :
              IOk(y.asm, Instr("MOV", vx, y.val, 0, "", "register"))))
    ELSE IF C.cur_token.ttype = "Label"
    THEN IF vx # "I" THEN IFail(C, ArgError(vx, "MOV", Line(C), Col(C)))
         ELSE ITryLook(LabelP(C, addrs), LAMBDA l :
              WithLook(IOk(l.asm, Instr("MOV", vx, "", l.val, "", "constant")), l.look))
    ELSE ITry(Constant(C), LAMBDA k :
         IOk(k.asm, Instr("MOV", vx, "", k.val, "", "constant")))

MovRule(A, addrs) ==
    ITry(RegisterP(A), LAMBDA x :
    ITry(Eat(x.asm, "Comma"), LAMBDA c : MovSource(c.asm, x.val, addrs)))

AddSource(C, vx) ==
    IF C.cur_token.ttype = "Register"
    THEN ITry(RegisterP(C), LAMBDA y :
         NotIndex(y, "ADD", LAMBDA y2 :
         IOk(y.asm, Instr("ADD", vx, y.val, 0, "", "register"))))
    ELSE ITry(Constant(C), LAMBDA k :
         IF vx = "I" THEN IFail(k.asm, ArgError("I", "ADD", Line(k.asm), Col(k.asm)))
         ELSE IOk(k.asm, Instr("ADD", vx, "", k.val, "", "constant")))

AddRule(A) ==
    ITry(RegisterP(A), LAMBDA x :
    ITry(Eat(x.asm, "Comma"), LAMBDA c : AddSource(c.asm, x.val)))

\* OR, AND, XOR, SUB, SUBN: two general registers
TwoRegRule(A, name) ==
    ITry(RegisterP(A), LAMBDA x :
    NotIndex(x, name, LAMBDA x2 :
    ITry(Eat(x.asm, "Comma"), LAMBDA c :
    ITry(RegisterP(c.asm), LAMBDA y :
    NotIndex(y, name, LAMBDA y2 :
    IOk(y.asm, Instr(name, x.val, y.val, 0, "", "register")))))))

\* SHR, SHL, GDL, KEY, SDL, SND, SCH, BCD, RDP, RLD: one general register
OneRegRule(A, name) ==
    ITry(RegisterP(A), LAMBDA x :
    NotIndex(x, name, LAMBDA x2 :
    IOk(x.asm, Instr(name, x.val, "", 0, "", "register"))))

RandRule(A) ==
    ITry(RegisterP(A), LAMBDA x :
    NotIndex(x, "RAND", LAMBDA x2 :
    ITry(Eat(x.asm, "Comma"), LAMBDA c :
    ITry(Constant(c.asm), LAMBDA k :
    IOk(k.asm, Instr("RAND", x.val, "", k.val % 256, "", "constant"))))))

DrawRule(A) ==
    ITry(RegisterP(A), LAMBDA x :
    NotIndex(x, "DRAW", LAMBDA x2 :
    ITry(Eat(x.asm, "Comma"), LAMBDA c :
    ITry(RegisterP(c.asm), LAMBDA y :
    NotIndex(y, "DRAW", LAMBDA y2 :
    ITry(Eat(y.asm, "Comma"), LAMBDA d :
    ITry(Constant(d.asm), LAMBDA k :
    IOk(k.asm, Instr("DRAW", x.val, y.val, k.val % 16, "", "constant")))))))))

\* mnemonic text -> the name used in errors and instructions
OneRegNames == {"SHR", "SHL", "GDL", "KEY", "SDL", "SND", "SCH", "BCD", "RDP", "RLD"}
TwoRegNames == {"OR", "AND", "XOR", "SUB", "SUBN"}
MnemonicText ==
    [n \in {"CLS", "RET", "JMP", "CALL", "SKIP", "MOV", "ADD", "JPC", "RAND", "DRAW"}
           \cup OneRegNames \cup TwoRegNames |->
     CASE n = "CLS" -> <<"C", "L", "S">> [] n = "RET" -> <<"R", "E", "T">> [] n = "JMP" -> <<"J", "M", "P">>
       [] n = "CALL" -> <<"C", "A", "L", "L">> [] n = "SKIP" -> <<"S", "K", "I", "P">> [] n = "MOV" -> <<"M", "O", "V">>
       [] n = "ADD" -> <<"A", "D", "D">> [] n = "JPC" -> <<"J", "P", "C">> [] n = "RAND" -> <<"R", "A", "N", "D">>
       [] n = "DRAW" -> <<"D", "R", "A", "W">> [] n = "SHR" -> <<"S", "H", "R">> [] n = "SHL" -> <<"S", "H", "L">>
       [] n = "GDL" -> <<"G", "D", "L">> [] n = "KEY" -> <<"K", "E", "Y">> [] n = "SDL" -> <<"S", "D", "L">>
       [] n = "SND" -> <<"S", "N", "D">> [] n = "SCH" -> <<"S", "C", "H">> [] n = "BCD" -> <<"B", "C", "D">>
       [] n = "RDP" -> <<"R", "D", "P">> [] n = "RLD" -> <<"R", "L", "D">> [] n = "OR" -> <<"O", "R">>
       [] n = "AND" -> <<"A", "N", "D">> [] n = "XOR" -> <<"X", "O", "R">> [] n = "SUB" -> <<"S", "U", "B">>
       [] n = "SUBN" -> <<"S", "U", "B", "N">>]
Mnemonics == DOMAIN MnemonicText
IsMnemonic(t) == \E n \in Mnemonics : MnemonicText[n] = t
NameOf(t) == CHOOSE n \in Mnemonics : MnemonicText[n] = t

InstructionOf(B, instr, addrs) ==
    IF ~IsMnemonic(instr) THEN IFail(B, OpcodeError(instr, Line(B), Col(B)))
    ELSE IF NameOf(instr) \in {"CLS", "RET"}
         THEN IOk(B, Instr(NameOf(instr), "", "", 0, "", "none"))
    ELSE IF NameOf(instr) \in {"JMP", "CALL"} THEN LabelRule(B, addrs, NameOf(instr))
    ELSE IF NameOf(instr) = "SKIP" THEN SkipRule(B)
    ELSE IF NameOf(instr) = "MOV" THEN MovRule(B, addrs)
    ELSE IF NameOf(instr) = "ADD" THEN AddRule(B)
    ELSE IF NameOf(instr) \in TwoRegNames THEN TwoRegRule(B, NameOf(instr))
    ELSE IF NameOf(instr) \in OneRegNames THEN OneRegRule(B, NameOf(instr))
    ELSE IF NameOf(instr) = "JPC" THEN JpcRule(B, addrs)
    ELSE IF NameOf(instr) = "RAND" THEN RandRule(B)
    ELSE DrawRule(B)

Instruction(A, addrs) ==
    ITry(Eat(A, "Instruction"), LAMBDA e :
        InstructionOf(e.asm, A.cur_token.value.text, addrs))

(***************************************************************************)
(* Source texts                                                            *)
(***************************************************************************)
\* number of statements in a generated program
MaxStmts == 2
\* calls of get_next_token made after EndOfInput was first returned
MaxTailCalls == 3
\* iterations of the assemble loop that consume nothing which are counted
MaxIdle == 2
\* add_entry calls made on a table that is driven directly
MaxAdds == 3

CoreMenu ==
    {<<"C", "L", "S">>, <<"M", "O", "V", " ", "V", "1", ",", " ", "V", "2">>, <<"S", "H", "R", " ", "V", "0">>, <<"_", "a", ":">>, <<"_", "B", ":">>, <<"J", "M", "P", " ", "_", "a">>, <<"J", "M", "P", " ", "_", "B">>,
     <<"C", "A", "L", "L", " ", "_", "B">>, <<"M", "O", "V", " ", "I", ",", " ", "_", "B">>, <<"M", "O", "V", " ", "V", "0", ",", " ", "_", "B">>, <<"$", "F", "C", "0", "0">>, <<"#", "2", "1", "2">>, <<"%", "1", "1", "1", "1", "1", "1", "1", "1">>}

Seps == {<<" ">>, <<"\n">>, <<"\n", " ">>}

RECURSIVE Cat(_, _, _)
Cat(p, q, n) == IF n = 1 THEN p[1] ELSE Cat(p, q, n - 1) \o q[n - 1] \o p[n]

Programs ==
    UNION {{Cat(p, q, n) : p \in [1..n -> CoreMenu], q \in [1..(n - 1) -> Seps]} :
           n \in 1..MaxStmts}

\* operand lists written after a mnemonic
OperandTexts ==
    {<<>>, <<" ", "V", "0">>, <<" ", "I">>, <<" ", "V", "0", ",", " ", "V", "1">>, <<" ", "I", ",", " ", "V", "1">>, <<" ", "V", "0", ",", " ", "I">>, <<" ", "V", "0", ",", " ", "#", "5">>, <<" ", "I", ",", " ", "#", "5">>,
     <<" ", "_", "B">>, <<" ", "#", "5">>, <<" ", "$", "2", "0", "0">>, <<" ", "%", "0", "0", "0", "0", "0", "1", "0", "1">>, <<" ", "V", "0", ",", " ", "V", "1", ",", " ", "#", "5">>, <<" ", "I", ",", " ", "V", "1", ",", " ", "#", "5">>,
     <<" ", "V", "0", ",", " ", "I", ",", " ", "#", "5">>, <<" ", "V", "0", ",", " ", "_", "B">>, <<" ", "I", ",", " ", "_", "B">>, <<" ", "I", ",", " ", "_", "s", "t", "a", "r", "t">>, <<" ", "V", "0", ",", " ", "_", "s", "t", "a", "r", "t">>,
     <<".", "E", "Q", " ", "V", "0", ",", " ", "V", "1">>, <<".", "E", "Q", " ", "V", "0", ",", " ", "#", "5">>, <<".", "N", "E", " ", "V", "0", ",", " ", "V", "1">>, <<".", "N", "E", " ", "V", "0", ",", " ", "$", "F", "F">>, <<".", "E", "Q", " ", "I", ",", " ", "V", "1">>,
     <<".", "E", "Q", " ", "V", "0", ",", " ", "I">>, <<".", "E", "Q", " ", "V", "0">>, <<".", "K", "D", " ", "V", "0", ",", " ", "V", "1">>, <<".", "K", "D", " ", "V", "0">>, <<".", "K", "U", " ", "V", "0">>, <<".", "K", "E", "Y", " ", "V", "0">>,
     <<".", "N", "O", "K", "E", "Y", " ", "V", "0">>, <<".", "K", "E", "Y", " ", "I">>, <<".", "K", "E", "Y", " ", "V", "0", ",", " ", "V", "1">>, <<" ", "V", "0", " ", "V", "1">>, <<" ", "V", "0", ",">>}

\* label definitions written before the statement
Prefixes == {<<>>, <<"_", "B", ":", " ">>, <<"_", "S", "T", "A", "R", "T", ":", " ">>, <<"_", "s", "t", "a", "r", "t", ":", " ">>}

Statements ==
    {pre \o MnemonicText[m] \o ops :
        pre \in Prefixes, m \in Mnemonics, ops \in OperandTexts}

\* the address-accounting example: seven lines separated by single line feeds
AddrExample == <<"_", "h", "e", "x", ":", "\n", "$", "F", "C", "0", "0", "\n", "_", "b", "i", "n", ":", "\n", "%", "1", "1", "1", "1", "1", "1", "1", "1", "\n", "_", "d", "e", "c", ":", "\n", "#", "2", "1", "2", "\n", "_", "s", "t", "a", "r", "t", ":">>

\* prep_lexer.rs tests::LEX_STR
PrepLexStr ==
    <<"M", "O", "V", " ", "V", "1", ",", " ", "V", "2", " ", "\n", " ", " ", " ", " ", " ",
      " ", " ", " ", " ", " ", " ", " ", " ", " ", " ", " ", " ", " ", " ", " ", "_", "h", "e",
      "x", ":", "\n", " ", " ", " ", " ", " ", " ", " ", " ", " ", " ", " ", " ", " ", " ",
      " ", " ", " ", " ", " ", " ", "$", "F", "C", "0", "0", "\n", " ", " ", " ", " ", " ",
      " ", " ", " ", " ", " ", " ", " ", " ", " ", " ", " ", " ", " ", " ", " ", "_", "b", "i",
      "n", ":", "\n", " ", " ", " ", " ", " ", " ", " ", " ", " ", " ", " ", " ", " ", " ",
      " ", " ", " ", " ", " ", " ", "%", "0", "1", "0", "1", "1", "0", "1", "0", "\n", " ",
      " ", " ", " ", " ", " ", " ", " ", " ", " ", " ", " ", " ", " ", " ", " ", " ", " ", " ",
      " ", "_", "d", "e", "c", ":", "\n", " ", " ", " ", " ", " ", " ", " ", " ", " ", " ",
      " ", " ", " ", " ", " ", " ", " ", " ", " ", " ", "#", "2", "5", "5", "\n", " ", " ",
      " ", " ", " ", " ", " ", " ", " ", " ", " ", " ", " ", " ", " ", " ", " ", " ", " ", " ",
      "_", "s", "t", "a", "r", "t", ":", " ", "\n", " ", " ", " ", " ", " ", " ", " ", " ",
      " ", " ", " ", " ", " ", " ", " ", " ", " ", " ", " ", " ", "C", "L", "S", " ", "\n",
      " ", " ", " ", " ", " ", " ", " ", " ", " ", " ", " ", " ", " ", " ", " ", " ", " ", " ",
      " ", " ", "C", "A", "L", "L", " ", "_", "s", "t", "a", "r", "t", " ", "\n", " ", " ",
      " ", " ", " ", " ", " ", " ", " ", " ", " ", " ", " ", " ", " ", " ", " ", " ", " ", " ",
      "R", "E", "T">>

\* asm_lexer.rs tests::LEX_STR
AsmLexStr ==
    <<"M", "O", "V", " ", "V", "1", ",", " ", "V", "2", "\n", " ", " ", " ", " ", " ", " ",
      " ", " ", " ", " ", " ", " ", " ", " ", " ", " ", " ", " ", " ", " ", " ", " ", " ", " ",
      " ", " ", " ", " ", "_", "h", "e", "x", ":", "\n", " ", " ", " ", " ", " ", " ", " ",
      " ", " ", " ", " ", " ", " ", " ", " ", " ", " ", " ", " ", " ", " ", " ", " ", " ", " ",
      " ", " ", " ", "$", "F", "C", "0", "0", "\n", " ", " ", " ", " ", " ", " ", " ", " ",
      " ", " ", " ", " ", " ", " ", " ", " ", " ", " ", " ", " ", " ", " ", " ", " ", " ", " ",
      " ", " ", "_", "b", "i", "n", ":", " ", "\n", " ", " ", " ", " ", " ", " ", " ", " ",
      " ", " ", " ", " ", " ", " ", " ", " ", " ", " ", " ", " ", " ", " ", " ", " ", " ", " ",
      " ", " ", "%", "1", "1", "1", "1", "1", "1", "1", "1", "\n", " ", " ", " ", " ", " ",
      " ", " ", " ", " ", " ", " ", " ", " ", " ", " ", " ", " ", " ", " ", " ", " ", " ", " ",
      " ", " ", " ", " ", " ", "_", "d", "e", "c", ":", "\n", " ", " ", " ", " ", " ", " ",
      " ", " ", " ", " ", " ", " ", " ", " ", " ", " ", " ", " ", " ", " ", " ", " ", " ", " ",
      " ", " ", " ", " ", "#", "2", "1", "2", "\n", " ", " ", " ", " ", " ", " ", " ", " ",
      " ", " ", " ", " ", " ", " ", " ", " ", " ", " ", " ", " ", " ", " ", " ", " ", " ", " ",
      " ", " ", "_", "s", "t", "a", "r", "t", ":", "\n", " ", " ", " ", " ", " ", " ", " ",
      " ", " ", " ", " ", " ", " ", " ", " ", " ", " ", " ", " ", " ", " ", " ", " ", " ", " ",
      " ", " ", " ", "C", "L", "S", "\n", " ", " ", " ", " ", " ", " ", " ", " ", " ", " ",
      " ", " ", " ", " ", " ", " ", " ", " ", " ", " ", " ", " ", " ", " ", " ", " ", " ", " ",
      "S", "K", "I", "P", ".", "N", "E", " ", "V", "0", ",", " ", "V", "1", " ", "\n", " ",
      " ", " ", " ", " ", " ", " ", " ", " ", " ", " ", " ", " ", " ", " ", " ", " ", " ", " ",
      " ", " ", " ", " ", " ", " ", " ", " ", " ", "C", "A", "L", "L", " ", "_", "s", "t", "a",
      "r", "t", " ", "\n", " ", " ", " ", " ", " ", " ", " ", " ", " ", " ", " ", " ", " ",
      " ", " ", " ", " ", " ", " ", " ", " ", " ", " ", " ", " ", " ", " ", " ", "R", "E", "T">>

\* assembler.rs tests::CODE
TestCode ==
    <<"C", "L", "S", "\n", " ", " ", " ", " ", " ", " ", " ", " ", " ", " ", " ", " ", " ",
      " ", " ", " ", " ", " ", " ", " ", " ", " ", " ", " ", "M", "O", "V", " ", "V", "0", ",",
      " ", "#", "0", "\n", " ", " ", " ", " ", " ", " ", " ", " ", " ", " ", " ", " ", " ",
      " ", " ", " ", " ", " ", " ", " ", " ", " ", " ", " ", "M", "O", "V", " ", "V", "1", ",",
      " ", "#", "1", "5", "\n", " ", " ", " ", " ", " ", " ", " ", " ", " ", " ", " ", " ",
      " ", " ", " ", " ", " ", " ", " ", " ", " ", " ", " ", " ", "K", "E", "Y", " ", "V", "2",
      "\n", " ", " ", " ", " ", " ", " ", " ", " ", " ", " ", " ", " ", " ", " ", " ", " ",
      " ", " ", " ", " ", " ", " ", " ", " ", "S", "C", "H", " ", "V", "2", " ", "\n", " ",
      " ", " ", " ", " ", " ", " ", " ", " ", " ", " ", " ", " ", " ", " ", " ", " ", " ", " ",
      " ", " ", " ", " ", " ", "_", "l", "o", "o", "p", ":", "\n", " ", " ", " ", " ", " ",
      " ", " ", " ", " ", " ", " ", " ", " ", " ", " ", " ", " ", " ", " ", " ", " ", " ", " ",
      " ", "D", "R", "A", "W", " ", "V", "0", ",", " ", "V", "1", ",", " ", "#", "5", "\n",
      " ", " ", " ", " ", " ", " ", " ", " ", " ", " ", " ", " ", " ", " ", " ", " ", " ", " ",
      " ", " ", " ", " ", " ", " ", "A", "D", "D", " ", "V", "0", ",", " ", "#", "1", "\n",
      " ", " ", " ", " ", " ", " ", " ", " ", " ", " ", " ", " ", " ", " ", " ", " ", " ", " ",
      " ", " ", " ", " ", " ", " ", "J", "M", "P", " ", "_", "l", "o", "o", "p">>

FixedSources ==
    {AddrExample, PrepLexStr, AsmLexStr, TestCode, <<"M", "O", "V", " ", "V", "1", ",", " ", "@">>, <<>>,
     <<"m", "o", "v", " ", "v", "1", ",", " ", "v", "2">>, <<"S", "H", "R", " ", "i">>, <<"S", "H", "R", " ", "V", "0", " ", "S", "H", "R", " ", "V", "1", " ", "_", "a", ":">>, <<"_", "a", ":", " ", "J", "M", "P", " ", "_", "a", " ", ";", " ", "l", "o", "o", "p">>,
     <<"#", "0", " ", "#", "1", " ", "#", "1", "6", " ", "_", "a", ":">>, <<"#", "2", "5", "6", " ", "_", "a", ":">>, <<"$", "0", "0", "F", "F", " ", "_", "a", ":">>, <<"M", "O", "V", " ", "V", "0", ",", " ", "#", "0", " ", "_", "a", ":">>, <<"X", "Y", "Z">>,
     <<"#">>, <<"$">>, <<"#", "7", "0", "0", "0", "0">>, <<"%", "1", "0", "1">>, <<"S", "H", "R", " ", "V", "G">>,
     <<"s", "k", "i", "p", ".", "e", "q", " ", "v", "0", ",", " ", "#", "5">>, <<"M", "O", "V", " ", "v", "a", ",", " ", "$", "f", "f">>,
     <<"C", "L", "S", " ", "i", "\n", "@">>,
     <<"S", "K", "I", "P", ".", "N", "E", " ", "V", "0", ",", " ", "V", "1", " ", "_", "A", ":">>}

Sources == Programs \cup Statements \cup FixedSources

(***************************************************************************)
(* State                                                                   *)
(***************************************************************************)
VARIABLES
    text,      \* the source text handed to Assembler::new / AsmLexer::new
    pc,        \* where main is: new, process, assemble, assembled, done, failed, lexing
    prep,      \* the PrepLexer owned by the Preprocessor
    ptoken,    \* the Preprocessor's current token
    addrs,     \* the Address Table
    asm,       \* the Assembler's lexer and cur_token
    binary,    \* what has been added to the Binary, in order
    result,    \* the error returned (or Ok), None while running
    written,   \* write_to_file has been called
    idle,      \* assemble-loop iterations that matched no branch
    tokens,    \* tokens returned by AsmLexer::get_next_token to a direct caller
    defs,      \* label definitions seen in Pass 1 with the address at that moment
    lookups,   \* Address Table lookups made in Pass 2
    marks      \* label definitions passed in Pass 2, with the bytes added before each

vars == <<text, pc, prep, ptoken, addrs, asm, binary, result, written, idle,
          tokens, defs, lookups, marks>>

NoLexer == [text |-> <<>>, pos |-> 0, cur_char |-> NUL, line |-> 1, col |-> 1]
NoPrep == [text |-> <<>>, cur_char |-> NUL, pos |-> 0, line |-> 1, col |-> 1,
           addr |-> MEM_START, nib_count |-> 0]
NoAsm == [lexer |-> NoLexer, cur_token |-> NoToken]
OkResult == ErrRec("Ok", 0, 0, "", "", <<>>)

Init ==
    /\ text \in Sources
    /\ pc = "new"
    /\ prep = NoPrep
    /\ ptoken = NoToken
    /\ addrs = AddrTableNew
    /\ asm = NoAsm
    /\ binary = <<>>
    /\ result = NoErr
    /\ written = FALSE
    /\ idle = 0
    /\ tokens = <<>>
    /\ defs = <<>>
    /\ lookups = <<>>
    /\ marks = <<>>

\* items of the binary
InstrItem(ins) == [kind |-> "instr", instr |-> ins, num |-> 0]
ByteItem(b) == [kind |-> "byte", instr |-> NoInstr, num |-> b]
WordItem(w) == [kind |-> "word", instr |-> NoInstr, num |-> w]

\* bytes the Binary holds: 2 per instruction, 1 per byte, 2 per word
ItemBytes(it) == IF it.kind = "byte" THEN 1 ELSE 2
RECURSIVE BinaryLen(_)
BinaryLen(b) == IF b = <<>> THEN 0 ELSE BinaryLen(Tail(b)) + ItemBytes(Head(b))

Fail(err) == pc' = "failed" /\ result' = err

(***************************************************************************)
(* Assembler::new, first half: Binary::new and Preprocessor::new, which    *)
(* builds the PrepLexer and reads the first token                          *)
(***************************************************************************)
\* the Preprocessor takes the token read, or returns the lexer's error
PrepRead(r) ==
    /\ prep' = r.lexer
    /\ ptoken' = r.tok
    /\ IF r.err.kind # "None" THEN Fail(r.err)
       ELSE pc' = "process" /\ UNCHANGED result

PreprocessorNew ==
    /\ pc = "new"
    /\ IF text = <<>>
       THEN Fail(Panic("PrepLexer::new")) /\ UNCHANGED <<prep, ptoken>>
       ELSE PrepRead(PrepGetNextToken(PrepLexerNew(text)))
    /\ UNCHANGED <<text, addrs, asm, binary, written, idle, tokens, defs, lookups, marks>>

\* Preprocessor::process, one iteration: a LblDef token is entered in the
\* table with the lexer's current address, then the next token is read
Process ==
    /\ pc = "process"
    /\ ptoken.ttype # "EndOfInput"
    /\ addrs' = IF ptoken.ttype = "LblDef"
                THEN AddEntry(addrs, ptoken.value.text, prep.addr)
                ELSE addrs
    /\ defs' = IF ptoken.ttype = "LblDef"
               THEN Append(defs, [label |-> ptoken.value.text, addr |-> prep.addr])
               ELSE defs
    /\ PrepRead(PrepGetNextToken(prep))
    /\ UNCHANGED <<text, asm, binary, written, idle, tokens, lookups, marks>>

\* Assembler::new, second half: AsmLexer::new and the first token
FirstToken(r) ==
    /\ asm' = [lexer |-> r.lexer, cur_token |-> r.tok]
    /\ IF r.err.kind # "None" THEN Fail(r.err)
       ELSE pc' = "assemble" /\ UNCHANGED result

\* a constructor that creates the Pass 2 lexer without waiting for Pass 1
LexerStartEarly ==
    /\ pc = "process"
    /\ FirstToken(AsmGetNextToken(AsmLexerNew(text)))
    /\ UNCHANGED <<text, prep, ptoken, addrs, binary, written, idle, tokens, defs, lookups, marks>>

LexerStart ==
    /\ pc = "process"
    /\ ptoken.ttype = "EndOfInput"
    /\ FirstToken(AsmGetNextToken(AsmLexerNew(text)))
    /\ UNCHANGED <<text, prep, ptoken, addrs, binary, written, idle, tokens, defs, lookups, marks>>

(***************************************************************************)
(* Assembler::assemble, one loop iteration per action                      *)
(***************************************************************************)
AtToken(ttype) == pc = "assemble" /\ asm.cur_token.ttype = ttype

AssembleEnd ==
    /\ AtToken("EndOfInput")
    /\ pc' = "assembled"
    /\ result' = OkResult
    /\ UNCHANGED <<text, prep, ptoken, addrs, asm, binary, written, idle, tokens,
                   defs, lookups, marks>>

\* self.instruction()? then binary.add_instruction
AddInstruction(r) ==
    /\ asm' = r.asm
    /\ lookups' = IF r.look.made THEN Append(lookups, r.look) ELSE lookups
    /\ IF r.err.kind # "None"
       THEN Fail(r.err) /\ UNCHANGED binary
       ELSE binary' = Append(binary, InstrItem(r.instr)) /\ UNCHANGED <<pc, result>>

AssembleInstruction ==
    /\ AtToken("Instruction")
    /\ AddInstruction(Instruction(asm, addrs))
    /\ UNCHANGED <<text, prep, ptoken, addrs, written, idle, tokens, defs, marks>>

\* a decimal or hex literal: a word above 0xFF, a byte otherwise
LitItem(v) == IF v > U8Max THEN WordItem(v) ELSE ByteItem(v % 256)

AddByte(r) ==
    /\ asm' = r.asm
    /\ IF r.err.kind # "None"
       THEN Fail(r.err) /\ UNCHANGED binary
       ELSE binary' = Append(binary, ByteItem(r.val)) /\ UNCHANGED <<pc, result>>

AddLiteral(r) ==
    /\ asm' = r.asm
    /\ IF r.err.kind # "None"
       THEN Fail(r.err) /\ UNCHANGED binary
       ELSE binary' = Append(binary, LitItem(r.val)) /\ UNCHANGED <<pc, result>>

AssembleBinLit ==
    /\ AtToken("BinLit")
    /\ AddByte(BinLitP(asm))
    /\ UNCHANGED <<text, prep, ptoken, addrs, written, idle, tokens, defs, lookups, marks>>

AssembleDecLit ==
    /\ AtToken("DecLit")
    /\ AddLiteral(DecLitP(asm))
    /\ UNCHANGED <<text, prep, ptoken, addrs, written, idle, tokens, defs, lookups, marks>>

AssembleHexLit ==
    /\ AtToken("HexLit")
    /\ AddLiteral(HexLitP(asm))
    /\ UNCHANGED <<text, prep, ptoken, addrs, written, idle, tokens, defs, lookups, marks>>

Skipped(e) ==
    /\ asm' = e.asm
    /\ IF e.err.kind # "None" THEN Fail(e.err) ELSE UNCHANGED <<pc, result>>

AssembleLblDef ==
    /\ AtToken("LblDef")
    /\ Skipped(Eat(asm, "LblDef"))
    /\ marks' = Append(marks, [label |-> asm.cur_token.value.text,
                                bytes |-> BinaryLen(binary)])
    /\ UNCHANGED <<text, prep, ptoken, addrs, binary, written, idle, tokens, defs, lookups>>

\* a token of any other kind matches no branch: the loop goes round again
\* with nothing changed (idle only counts such iterations, up to MaxIdle)
AssembleOther ==
    /\ pc = "assemble"
    /\ asm.cur_token.ttype \in {"Register", "Label", "SkipCond", "Comma", "Period"}
    /\ idle' = IF idle < MaxIdle THEN idle + 1 ELSE idle
    /\ UNCHANGED <<text, pc, prep, ptoken, addrs, asm, binary, result, written,
                   tokens, defs, lookups, marks>>

\* main: the binary is written once assemble has returned Ok
\* a driver that writes whatever the binary holds, failure or not
WriteToFileAlways ==
    /\ pc \in {"assembled", "failed"}
    /\ written' = TRUE
    /\ pc' = "done"
    /\ UNCHANGED <<text, prep, ptoken, addrs, asm, binary, result, idle, tokens,
                   defs, lookups, marks>>

WriteToFile ==
    /\ pc = "assembled"
    /\ written' = TRUE
    /\ pc' = "done"
    /\ UNCHANGED <<text, prep, ptoken, addrs, asm, binary, result, idle, tokens,
                   defs, lookups, marks>>

Next ==
    \/ PreprocessorNew
    \/ Process
    \/ LexerStart
    \/ AssembleEnd
    \/ AssembleInstruction
    \/ AssembleBinLit
    \/ AssembleDecLit
    \/ AssembleHexLit
    \/ AssembleLblDef
    \/ AssembleOther
    \/ WriteToFile

Spec == Init /\ [][Next]_vars

\* the program runs on: no step that can be taken is postponed forever
FairSpec == Spec /\ WF_vars(Next)

(***************************************************************************)
(* AsmLexer driven directly, as its unit tests do                          *)
(***************************************************************************)
EndCount == Cardinality({i \in 1..Len(tokens) : tokens[i].ttype = "EndOfInput"})

LexNew ==
    /\ pc = "new"
    /\ IF text = <<>>
       THEN Fail(Panic("AsmLexer::new")) /\ UNCHANGED asm
       ELSE /\ asm' = [lexer |-> AsmLexerNew(text), cur_token |-> NoToken]
            /\ pc' = "lexing"
            /\ UNCHANGED result
    /\ UNCHANGED <<text, prep, ptoken, addrs, binary, written, idle, tokens, defs, lookups, marks>>

Returned(r) ==
    /\ asm' = [lexer |-> r.lexer, cur_token |-> r.tok]
    /\ IF r.err.kind # "None"
       THEN Fail(r.err) /\ UNCHANGED tokens
       ELSE tokens' = Append(tokens, r.tok) /\ UNCHANGED <<pc, result>>

LexCall ==
    /\ pc = "lexing"
    /\ EndCount <= MaxTailCalls
    /\ Returned(AsmGetNextToken(asm.lexer))
    /\ UNCHANGED <<text, prep, ptoken, addrs, binary, written, idle, defs, lookups, marks>>

LexNext == LexNew \/ LexCall

LexSpec == Init /\ [][LexNext]_vars

(***************************************************************************)
(* PrepLexer driven directly, one loop iteration of get_next_token per     *)
(* action; tokens holds the tokens returned so far                         *)
(***************************************************************************)
PrepNew ==
    /\ pc = "new"
    /\ IF text = <<>>
       THEN Fail(Panic("PrepLexer::new")) /\ UNCHANGED prep
       ELSE prep' = PrepLexerNew(text) /\ pc' = "prep" /\ UNCHANGED result
    /\ UNCHANGED <<text, ptoken, addrs, asm, binary, written, idle, tokens, defs, lookups, marks>>

\* defs notes, for each LblDef token returned, the address get_addr gives
PrepReturned(r) ==
    /\ prep' = r.lexer
    /\ IF r.err.kind # "None" THEN Fail(r.err) /\ UNCHANGED <<ptoken, tokens, defs>>
       ELSE IF r.tok = NoToken THEN UNCHANGED <<pc, result, ptoken, tokens, defs>>
       ELSE /\ ptoken' = r.tok
            /\ tokens' = Append(tokens, r.tok)
            /\ defs' = IF r.tok.ttype = "LblDef"
                       THEN Append(defs, [label |-> r.tok.value.text, addr |-> r.lexer.addr])
                       ELSE defs
            /\ pc' = IF r.tok.ttype = "EndOfInput" THEN "prepped" ELSE "prep"
            /\ UNCHANGED result

PrepIterate ==
    /\ pc = "prep"
    /\ PrepReturned(PrepStep(prep))
    /\ UNCHANGED <<text, addrs, asm, binary, written, idle, lookups, marks>>

PrepNext == PrepNew \/ PrepIterate

PrepSpec == Init /\ [][PrepNext]_vars

(***************************************************************************)
(* Properties                                                              *)
(***************************************************************************)
\* a label text in upper case, the spelling AsmLexer::label gives it
Upper(s) == [i \in 1..Len(s) |-> ToUpper(s[i])]

\* the statement has been assembled or rejected, or assemble is going round
\* without consuming anything
Decided == pc \in {"failed", "assembled", "done"} \/ idle > 0 \/ binary # <<>>

\* Pass 1 has read the whole source
PassOneDone ==
    \/ pc \in {"assemble", "assembled", "done"}
    \/ pc = "process" /\ ptoken.ttype = "EndOfInput"

\* Pass 1, or the construction around it, returned an error
PassOneFailed == pc = "failed" /\ asm = NoAsm

\* the k-th definition is the only definition of its label
DefinedOnce(k) ==
    \A j \in 1..Len(defs) : Upper(defs[j].label) = Upper(defs[k].label) => j = k

\* the table resolves the label, under its spelling in the source or in upper case
ResolvesTo(label, addr) ==
    \E key \in {label, Upper(label)} : GetEntry(addrs, key) = [ok |-> TRUE, addr |-> addr]

\* the binary holds exactly this instruction and nothing has gone wrong
Assembled(ins) ==
    /\ pc \in {"assemble", "assembled", "done"}
    /\ idle = 0
    /\ binary = <<InstrItem(ins)>>

\* C1: for a label defined once, the table holds the address the PrepLexer
\* had when the LblDef token was produced, and every Pass 2 reference to the
\* label (JMP, CALL, JPC, MOV I) finds an entry with exactly that address,
\* whether the reference stands before or after the definition.
C1_ReferencesResolve ==
    \A k \in 1..Len(defs) :
        DefinedOnce(k) =>
            /\ GetEntry(addrs, defs[k].label) = [ok |-> TRUE, addr |-> defs[k].addr]
            /\ \A i \in 1..Len(lookups) :
                   lookups[i].label = Upper(defs[k].label) =>
                       lookups[i].ok /\ lookups[i].addr = defs[k].addr

\* C2: in a source that assembles, the address Pass 1 recorded for the k-th
\* label definition is MEM_START plus the number of bytes Pass 2 had added to
\* the binary when it passed that definition.
C2_LabelIsNextByte ==
    (pc = "done" /\ Len(marks) = Len(defs)) =>
        \A k \in 1..Len(defs) :
            marks[k].label = Upper(defs[k].label) =>
                defs[k].addr = MEM_START + marks[k].bytes

\* C3: Pass 1 over the seven-line example returns no error and, once it has
\* read the whole source, the table resolves _hex to 0x0200, _bin to 0x0202,
\* _dec to 0x0203 and _start to 0x0204.
C3_AddrExampleResolves ==
    text = AddrExample =>
        /\ ~PassOneFailed
        /\ PassOneDone =>
               /\ ResolvesTo(<<"_", "h", "e", "x">>, MEM_START)
               /\ ResolvesTo(<<"_", "b", "i", "n">>, MEM_START + 2)
               /\ ResolvesTo(<<"_", "d", "e", "c">>, MEM_START + 3)
               /\ ResolvesTo(<<"_", "s", "t", "a", "r", "t">>, MEM_START + 4)

\* C4: once get_next_token has returned EndOfInput, every later call on the
\* same lexer returns EndOfInput too: no token of another kind follows an
\* EndOfInput, and no call made after one ends in an error.
C4_EndOfInputIdempotent ==
    /\ \A i \in 1..Len(tokens) : \A j \in i..Len(tokens) :
           tokens[i].ttype = "EndOfInput" => tokens[j].ttype = "EndOfInput"
    /\ EndCount >= 1 => pc = "lexing"

\* C4 witness: tokens were returned, then EndOfInput, then two more calls
\* were made on the same lexer.
C4_TailCalled == EndCount >= 3 /\ Len(tokens) > EndCount

MovExample == <<"M", "O", "V", " ", "V", "1", ",", " ", "V", "2">>

\* C5: the tokens follow the lexer rules: the text of an Instruction or
\* SkipCond token is the symbol in upper case, and "MOV V1, V2" gives exactly
\* Instruction(MOV), Register(V1), Comma, Register(V2), EndOfInput.
C5_TokensFollowRules ==
    /\ \A i \in 1..Len(tokens) :
           tokens[i].ttype \in {"Instruction", "SkipCond"} =>
               tokens[i].value.text = Upper(tokens[i].value.text)
    /\ (text = MovExample /\ EndCount = 1) =>
           tokens = <<Token("Instruction", VText(<<"M", "O", "V">>)),
                      Token("Register", VText(<<"V", "1">>)),
                      Token("Comma", VText(<<",">>)),
                      Token("Register", VText(<<"V", "2">>)),
                      Token("EndOfInput", VText(<<>>))>>

\* a mnemonic followed by operands outside its grammar: an operand too many,
\* an operand missing, an operand of the wrong kind
OutOfGrammar ==
    {MnemonicText[f[1]] \o f[2] :
        f \in {<<"CLS", <<" ", "V", "0">>>>, <<"RET", <<" ", "V", "0">>>>, <<"SHR", <<" ", "V", "0", ",", " ", "V", "1">>>>,
               <<"OR", <<" ", "V", "0", ",", " ", "V", "1", ",", " ", "#", "5">>>>, <<"JMP", <<" ", "V", "0", ",", " ", "_", "B">>>>,
               <<"SHR", <<>>>>, <<"OR", <<" ", "V", "0">>>>, <<"DRAW", <<" ", "V", "0", ",", " ", "V", "1">>>>,
               <<"RAND", <<" ", "V", "0">>>>, <<"MOV", <<" ", "V", "0">>>>, <<"JMP", <<>>>>,
               <<"MOV", <<" ", "V", "0", " ", "V", "1">>>>, <<"JMP", <<" ", "V", "0">>>>, <<"SHR", <<" ", "_", "B">>>>,
               <<"RAND", <<" ", "V", "0", ",", " ", "V", "1">>>>, <<"DRAW", <<" ", "V", "0", ",", " ", "#", "5">>>>}}

\* C6: a mnemonic with operands outside its grammar never ends with a binary
\* produced; assemble does not go round without consuming the operands; and
\* the error it ends with is a syntactic or an operand-legality error.
C6_OutOfGrammarRejected ==
    text \in OutOfGrammar =>
        /\ pc \notin {"assembled", "done"}
        /\ idle = 0
        /\ pc = "failed" => result.kind \in {"Parser", "Argument", "Skip"}

\* the operand lists that put the index register where the mnemonic takes a
\* general register
IndexOperands(m) ==
    IF m \in OneRegNames THEN {<<" ", "I">>}
    ELSE IF m \in TwoRegNames \cup {"MOV"} THEN {<<" ", "I", ",", " ", "V", "1">>, <<" ", "V", "0", ",", " ", "I">>}
    ELSE IF m = "RAND" THEN {<<" ", "I", ",", " ", "#", "5">>}
    ELSE IF m = "DRAW" THEN {<<" ", "I", ",", " ", "V", "1", ",", " ", "#", "5">>, <<" ", "V", "0", ",", " ", "I", ",", " ", "#", "5">>}
    ELSE IF m = "SKIP" THEN {<<".", "E", "Q", " ", "I", ",", " ", "V", "1">>, <<".", "E", "Q", " ", "V", "0", ",", " ", "I">>, <<".", "K", "E", "Y", " ", "I">>}
    ELSE {}

\* C7: for the single-register and two-register mnemonics, RAND, DRAW, SKIP
\* and register-to-register MOV, the index register as a register operand
\* ends in an ArgError carrying register I and the mnemonic's name.
C7_IndexRegisterRejected ==
    \A m \in Mnemonics : \A ops \in IndexOperands(m) :
        (text = MnemonicText[m] \o ops /\ Decided) =>
            /\ pc = "failed"
            /\ result.kind = "Argument"
            /\ result.a = "I"
            /\ result.b = m

SkipKdTwo == <<"S", "K", "I", "P", ".", "K", "D", " ", "V", "0", ",", " ", "V", "1">>
SkipEqRegister == <<"S", "K", "I", "P", ".", "E", "Q", " ", "V", "0", ",", " ", "V", "1">>
SkipEqConstant == <<"S", "K", "I", "P", ".", "E", "Q", " ", "V", "0", ",", " ", "#", "5">>

\* C8: SKIP.KD V0, V1 fails and adds nothing to the binary; SKIP.EQ V0, V1
\* assembles into the register comparison (V0, V1, Equals) and SKIP.EQ V0, #5
\* into the constant comparison (V0, 5, Equals), two different instructions.
C8_SkipForms ==
    /\ text = SkipKdTwo =>
           /\ pc \notin {"assembled", "done"}
           /\ binary = <<>>
           /\ Decided => pc = "failed"
    /\ (text = SkipEqRegister /\ Decided) =>
           Assembled(Instr("SKIP", "V0", "V1", 0, "Equals", "register"))
    /\ (text = SkipEqConstant /\ Decided) =>
           Assembled(Instr("SKIP", "V0", "", 5, "Equals", "constant"))
    /\ Instr("SKIP", "V0", "V1", 0, "Equals", "register")
           # Instr("SKIP", "V0", "", 5, "Equals", "constant")

\* C8 witness: SKIP.EQ V0, #5 has been assembled and the binary written.
C8_ConstantSkipWritten ==
    /\ text = SkipEqConstant
    /\ pc = "done"
    /\ written
    /\ binary = <<InstrItem(Instr("SKIP", "V0", "", 5, "Equals", "constant"))>>

\* a key condition followed by one general register and no comma, with the
\* condition written as the lexer's words and as the parser's words
KeySkips == {<<"S", "K", "I", "P", ".", "K", "E", "Y", " ", "V", "0">>, <<"S", "K", "I", "P", ".", "N", "O", "K", "E", "Y", " ", "V", "0">>, <<"S", "K", "I", "P", ".", "K", "D", " ", "V", "0">>, <<"S", "K", "I", "P", ".", "K", "U", " ", "V", "0">>}

\* C9: a SKIP with a key condition and one general register assembles into
\* the key form, and no word the lexer classifies as SkipCond is unknown to
\* the parser.
C9_KeySkipAssembles ==
    /\ (text \in KeySkips /\ Decided) =>
           /\ pc # "failed"
           /\ idle = 0
           /\ Len(binary) = 1
           /\ binary[1].instr.form = "key"
           /\ binary[1].instr.st \in {"KeyDown", "KeyUp"}
    /\ \A w \in SkipWords :
           (text = <<"S", "K", "I", "P", ".">> \o w \o <<" ", "V", "0">> /\ Decided) => result.kind # "Panic"

MovIndexLabel == <<"M", "O", "V", " ", "I", ",", " ", "_", "s", "t", "a", "r", "t">>
MovGeneralLabel == <<"M", "O", "V", " ", "V", "0", ",", " ", "_", "s", "t", "a", "r", "t">>

\* the source defines _start, so that Pass 1 entered it in the table
StartDefined == \E k \in 1..Len(defs) : Upper(defs[k].label) = <<"_", "S", "T", "A", "R", "T">>

\* C10: MOV I, _start assembles exactly when _start has an entry in the
\* table and ends in an AddrError otherwise; MOV V0, _start ends in an
\* ArgError for V0 and MOV whether or not _start is defined.
C10_MovLabel ==
    \A pre \in Prefixes :
        /\ (text = pre \o MovIndexLabel /\ Decided) =>
               IF StartDefined
               THEN /\ pc # "failed"
                    /\ idle = 0
                    /\ Len(binary) = 1
                    /\ binary[1].instr.op = "MOV"
                    /\ binary[1].instr.vx = "I"
                    /\ ResolvesTo(<<"_", "s", "t", "a", "r", "t">>, binary[1].instr.nn)
               ELSE pc = "failed" /\ result.kind = "Address"
        /\ (text = pre \o MovGeneralLabel /\ Decided) =>
               /\ pc = "failed"
               /\ result.kind = "Argument"
               /\ result.a = "V0"
               /\ result.b = "MOV"

\* sources holding one well-formed instruction written with the mnemonic
WellFormedSources(m) ==
    IF m \in {"CLS", "RET"} THEN {MnemonicText[m]}
    ELSE IF m \in {"JMP", "CALL"} THEN {<<"_", "B", ":", " ">> \o MnemonicText[m] \o <<" ", "_", "B">>}
    ELSE IF m = "JPC" THEN {<<"J", "P", "C", " ", "#", "5">>, <<"J", "P", "C", " ", "$", "2", "0", "0">>, <<"_", "B", ":", " ", "J", "P", "C", " ", "_", "B">>}
    ELSE IF m \in OneRegNames THEN {MnemonicText[m] \o <<" ", "V", "0">>}
    ELSE IF m \in TwoRegNames THEN {MnemonicText[m] \o <<" ", "V", "0", ",", " ", "V", "1">>}
    ELSE IF m \in {"MOV", "ADD"}
         THEN {MnemonicText[m] \o <<" ", "V", "0", ",", " ", "V", "1">>, MnemonicText[m] \o <<" ", "V", "0", ",", " ", "#", "5">>}
    ELSE IF m = "RAND" THEN {<<"R", "A", "N", "D", " ", "V", "0", ",", " ", "#", "5">>}
    ELSE IF m = "DRAW" THEN {<<"D", "R", "A", "W", " ", "V", "0", ",", " ", "V", "1", ",", " ", "#", "5">>}
    ELSE {<<"S", "K", "I", "P", ".", "E", "Q", " ", "V", "0", ",", " ", "V", "1">>, <<"S", "K", "I", "P", ".", "E", "Q", " ", "V", "0", ",", " ", "#", "5">>, <<"S", "K", "I", "P", ".", "N", "E", " ", "V", "0", ",", " ", "V", "1">>}

\* the names of the instructions in the binary, in order
OpsOf(b) == [i \in 1..Len(b) |-> b[i].instr.op]

\* C11: a well-formed instruction written with a mnemonic of the fixed list
\* is parsed into the instruction of the same name; the test program gives
\* CLS, MOV, MOV, KEY, SCH, DRAW, ADD, JMP with no call failing.
C11_MnemonicsParse ==
    /\ \A m \in Mnemonics :
           (text \in WellFormedSources(m) /\ Decided) =>
               /\ pc # "failed"
               /\ idle = 0
               /\ OpsOf(binary) = <<m>>
    /\ text = TestCode =>
           /\ pc # "failed"
           /\ idle = 0
           /\ pc = "done" =>
                  OpsOf(binary) = <<"CLS", "MOV", "MOV", "KEY", "SCH", "DRAW", "ADD", "JMP">>

\* the token kinds for which the assemble loop has no branch
OtherKinds == {"Register", "Label", "SkipCond", "Comma", "Period"}

\* C12: when the assemble loop holds a top-level token that is a Register,
\* Label, SkipCond, Comma or Period, its next step returns a syntactic error.
C12_OtherTokensRejected ==
    [][(pc = "assemble" /\ asm.cur_token.ttype \in OtherKinds) =>
           (pc' = "failed" /\ result'.kind = "Parser")]_vars

\* C13: Pass 1 followed by assemble terminates: the assemble loop never
\* repeats an iteration without consuming a token (an iteration that leaves
\* the lexer and the current token as they were is repeated for ever).
C13_AssembleProgresses == pc = "assemble" => idle = 0

\* C14: no failure is a panic: whatever the source text, lexing and
\* assembling it end with the binary written or with an error value.
C14_NoPanic == result.kind # "Panic"

\* C15: assembly is all-or-nothing: the binary is written only after
\* assemble returned success for the whole source, and the step that
\* reports an error, and every step after it, adds nothing to the binary
\* and writes nothing.
C15_AllOrNothing ==
    /\ [](written => (pc = "done" /\ result = OkResult))
    /\ [](pc = "failed" => ~written)
    /\ [][(pc' = "failed" \/ pc = "failed") => (binary' = binary /\ ~written')]_vars

\* an error value after part of the binary was built, nothing written
C15_FailedAfterOutput ==
    /\ pc = "failed"
    /\ result.kind \in {"Lexer", "Parser", "Opcode", "Argument", "Skip", "Address"}
    /\ binary # <<>>
    /\ ~written

PassTwoStarted == asm # NoAsm

\* C16: Pass 1 has read the whole source (its lexer is at the end and its
\* last token is EndOfInput) before the Pass 2 lexer exists; no step taken
\* once Pass 2 has started changes the address table; and when Pass 1 fails,
\* the result is the lexer's failure, Pass 2 never starts and the binary
\* stays empty.
C16_PassOneBeforePassTwo ==
    /\ [](PassTwoStarted => (ptoken.ttype = "EndOfInput" /\ prep.cur_char = NUL))
    /\ [][PassTwoStarted => addrs' = addrs]_vars
    /\ []((pc = "failed" /\ ptoken.ttype # "EndOfInput") =>
              (~PassTwoStarted /\ binary = <<>> /\ result.kind \in {"Lexer", "Panic"}))
    /\ [][(pc = "failed" /\ ~PassTwoStarted) => ~PassTwoStarted']_vars

\* Pass 2 at work on a table that Pass 1 filled
C16_PassTwoOnFilledTable ==
    /\ PassTwoStarted
    /\ addrs.data # {}
    /\ binary # <<>>

LastLookup == lookups[Len(lookups)]

\* C17: an address-resolution error is reported only by a failed lookup
\* of a referenced label, and only for a label the source does not define:
\* a source whose references all name defined labels is not rejected with
\* an address-resolution error.
C17_AddrErrorAtReference ==
    result.kind = "Address" =>
        /\ lookups # <<>>
        /\ ~LastLookup.ok
        /\ \A k \in 1..Len(defs) : Upper(defs[k].label) # LastLookup.label

(***************************************************************************)
(* AddrTable driven directly: any sequence of add_entry, get_entry and     *)
(* has_entry calls on a new table. defs is the history of the add_entry    *)
(* calls, lookups holds what the last get_entry or has_entry returned.     *)
(***************************************************************************)
TableLabels == {<<"_", "l", "a", "b", "e", "l">>, <<"_", "A">>, <<"_", "a">>}
TableAddrs == {4095, MEM_START, 0}

TableInit ==
    /\ text = <<>>
    /\ pc = "table"
    /\ prep = NoPrep
    /\ ptoken = NoToken
    /\ addrs = AddrTableNew
    /\ asm = NoAsm
    /\ binary = <<>>
    /\ result = NoErr
    /\ written = FALSE
    /\ idle = 0
    /\ tokens = <<>>
    /\ defs = <<>>
    /\ lookups = <<>>
    /\ marks = <<>>

TableAdd ==
    /\ Len(defs) < MaxAdds
    /\ \E label \in TableLabels, addr \in TableAddrs :
           /\ addrs' = AddEntry(addrs, label, addr)
           /\ defs' = Append(defs, [label |-> label, addr |-> addr])
    /\ pc' = "add_entry"
    /\ lookups' = <<>>
    /\ UNCHANGED <<text, prep, ptoken, asm, binary, result, written, idle, tokens, marks>>

TableGet ==
    /\ \E label \in TableLabels : lookups' = <<Look(label, GetEntry(addrs, label))>>
    /\ pc' = "get_entry"
    /\ result' = IF lookups'[1].ok THEN OkResult ELSE AddrError(lookups'[1].label)
    /\ UNCHANGED <<text, prep, ptoken, addrs, asm, binary, written, idle, tokens, defs, marks>>

TableHas ==
    /\ \E label \in TableLabels :
           lookups' = <<Look(label, [ok |-> HasEntry(addrs, label), addr |-> 0])>>
    /\ pc' = "has_entry"
    /\ result' = NoErr
    /\ UNCHANGED <<text, prep, ptoken, addrs, asm, binary, written, idle, tokens, defs, marks>>

TableNext == TableAdd \/ TableGet \/ TableHas

TableSpec == TableInit /\ [][TableNext]_vars

AddsOf(label) == {k \in 1..Len(defs) : defs[k].label = label}
LastAdd(label) == defs[CHOOSE k \in AddsOf(label) : \A j \in AddsOf(label) : j <= k]

\* C18: get_entry returns the address of the most recent add_entry for the
\* label and an address error for a label never added, has_entry is true
\* exactly when get_entry succeeds, and neither call changes the table.
C18_LastWriteWins ==
    /\ [](\A label \in TableLabels :
             /\ GetEntry(addrs, label) =
                    IF AddsOf(label) = {} THEN [ok |-> FALSE, addr |-> 0]
                    ELSE [ok |-> TRUE, addr |-> LastAdd(label).addr]
             /\ HasEntry(addrs, label) <=> GetEntry(addrs, label).ok)
    /\ [](pc = "get_entry" =>
             /\ LastLookup.ok <=> AddsOf(LastLookup.label) # {}
             /\ LastLookup.ok => LastLookup.addr = LastAdd(LastLookup.label).addr
             /\ ~LastLookup.ok => result = AddrError(LastLookup.label))
    /\ [](pc = "has_entry" => (LastLookup.ok <=> AddsOf(LastLookup.label) # {}))
    /\ [][pc' \in {"get_entry", "has_entry"} => addrs' = addrs]_vars

\* get_entry answered with the second of two different addresses given
\* for one label
C18_Overwritten ==
    /\ pc = "get_entry"
    /\ LastLookup.ok
    /\ \E j \in AddsOf(LastLookup.label) :
           /\ j < Len(defs)
           /\ defs[j].addr # LastLookup.addr
           /\ defs[Len(defs)] = [label |-> LastLookup.label, addr |-> LastLookup.addr]

\* C19: get_size is the number of entries (distinct labels) the table
\* holds, after any sequence of add_entry calls; it is 0 for a new table.
C19_SizeCountsEntries ==
    GetSize(addrs) = Cardinality({e[1] : e \in addrs.data})

\* the tokens AsmLexer returns for a text, up to the first EndOfInput or
\* the first error
RECURSIVE LexAll(_, _)
LexAllNext(r, toks) ==
    IF r.err.kind # "None" THEN [tokens |-> toks, err |-> r.err]
    ELSE IF r.tok.ttype = "EndOfInput" THEN [tokens |-> Append(toks, r.tok), err |-> NoErr]
    ELSE LexAll(r.lexer, Append(toks, r.tok))
LexAll(L, toks) == LexAllNext(AsmGetNextToken(L), toks)

LexedOnce == (pc = "lexing" /\ EndCount = 1) \/ pc = "failed"

\* C20: the letter case of mnemonics, skip conditions and registers does
\* not matter to AsmLexer: a source text without labels and the same text
\* in upper case give the same token sequence and the same outcome (the
\* same error, or none).
C20_CaseInsensitive ==
    (text # <<>> /\ "_" \notin SeqRange(text) /\ LexedOnce) =>
        /\ tokens = LexAll(AsmLexerNew(Upper(text)), <<>>).tokens
        /\ result = LexAll(AsmLexerNew(Upper(text)), <<>>).err

\* the tokens Pass 2 gets for the text being scanned
AsmTokens == LexAll(AsmLexerNew(text), <<>>).tokens

IsKey(s) == s # <<>> /\ s[1] = "_" /\ s = Upper(s) /\ ":" \notin SeqRange(s)

\* C21: both passes give a label the same key: the text of every LblDef
\* token PrepLexer returns is in upper case, keeps the underscore and has
\* no colon, and it equals the text of every Label token AsmLexer returns
\* for the same name in whatever letter case.
C21_LabelKeysAgree ==
    pc = "prepped" =>
        \A i \in 1..Len(tokens) :
            tokens[i].ttype = "LblDef" =>
                /\ IsKey(tokens[i].value.text)
                /\ \A j \in 1..Len(AsmTokens) :
                       (AsmTokens[j].ttype = "Label"
                        /\ Upper(AsmTokens[j].value.text) = Upper(tokens[i].value.text))
                       => AsmTokens[j].value.text = tokens[i].value.text

\* the error, if any, that scanning the text to its end gives in Pass 2
AsmError == LexAll(AsmLexerNew(text), <<>>).err

\* C22: scanning a text to its end with PrepLexer gives a lexical error
\* exactly when scanning it to its end with AsmLexer gives one.
C22_SameLexicalErrors ==
    pc \in {"prepped", "failed"} /\ text # <<>> =>
        (result.kind = "Lexer" <=> AsmError.kind = "Lexer")

JumpNames == {"JMP", "CALL", "JPC"}
ConstantOperands == {<<<<" ", "#", "5">>, 5>>, <<<<" ", "$", "2", "0", "0">>, 512>>, <<<<" ", "%", "0", "0", "0", "0", "0", "1", "0", "1">>, 5>>}
OtherOperands == {<<>>, <<" ", "V", "0">>, <<" ", "I">>, <<" ", "V", "0", ",", " ", "V", "1">>, <<".", "E", "Q", " ", "V", "0", ",", " ", "V", "1">>}

\* C23: JMP, CALL and JPC each assemble with a label operand (the label's
\* address is the target) and with a decimal, hex or binary constant operand
\* (its value is the target); with any other operand they end in an error.
C23_JumpOperands ==
    \A m \in JumpNames :
        /\ (text = <<"_", "B", ":", " ">> \o MnemonicText[m] \o <<" ", "_", "B">> /\ Decided) =>
               Assembled(Instr(m, "", "", MEM_START, "", "address"))
        /\ \A k \in ConstantOperands :
               (text = MnemonicText[m] \o k[1] /\ Decided) =>
                   Assembled(Instr(m, "", "", k[2], "", "address"))
        /\ \A o \in OtherOperands :
               (text = MnemonicText[m] \o o /\ Decided) =>
                   (pc = "failed" /\ result.kind \in {"Parser", "Argument"})

\* positions are 0-based, as the lexers' pos: the first position at or after
\* p that holds no whitespace character
RECURSIVE FirstNonWs(_, _)
FirstNonWs(txt, p) ==
    IF p < Len(txt) /\ IsWhitespace(txt[p + 1]) THEN FirstNonWs(txt, p + 1) ELSE p

LineEndsIn(txt, p, q) == {i \in p..(q - 1) : IsNewline(txt[i + 1])}

\* the 1-based column of position q, counted from the last line terminator
\* among positions p..q-1
ColumnAfter(txt, p, q) ==
    q - (CHOOSE i \in LineEndsIn(txt, p, q) : \A j \in LineEndsIn(txt, p, q) : j <= i)

\* C24: skipping whitespace consumes only whitespace: it stops at the first
\* character that is not whitespace, it adds one to the line counter for each
\* line terminator it passes, and the column then counts from 1 at the
\* start of the new line.
C24_SkipsOnlyWhitespace ==
    [][(pc = "prep" /\ IsWhitespace(prep.cur_char)) =>
           /\ prep'.pos = FirstNonWs(text, prep.pos)
           /\ prep'.line = prep.line + Cardinality(LineEndsIn(text, prep.pos, prep'.pos))
           /\ LineEndsIn(text, prep.pos, prep'.pos) # {} =>
                  prep'.col = ColumnAfter(text, prep.pos, prep'.pos)]_vars

\* the 1-based line and column of the character at 0-based position p
LineOf(txt, p) == 1 + Cardinality(LineEndsIn(txt, 0, p))
ColumnOf(txt, p) == IF LineEndsIn(txt, 0, p) = {} THEN p + 1 ELSE ColumnAfter(txt, 0, p)

\* C25: a lexical error carries the unknown character and the line and
\* column, both counted from 1, at which that character stands in the text.
C25_ErrorPosition ==
    (pc = "failed" /\ result.kind = "Lexer") =>
        /\ result.a = text[prep.pos + 1]
        /\ result.line = LineOf(text, prep.pos)
        /\ result.col = ColumnOf(text, prep.pos)

\* the construct at the lexer's position adds to the nibble count
Costs(P) ==
    \/ P.cur_char \in {"V", "I", DEC_LIT_CHAR, HEX_LIT_CHAR, BIN_LIT_CHAR}
    \/ IsAlpha(P.cur_char)
    \/ P.cur_char = "_" /\ ConsumeLabel(P).str[Len(ConsumeLabel(P).str)] # ":"

\* the nibble count once that construct is consumed, before update_addr
Pending(P) ==
    IF P.cur_char = "V" \/ P.cur_char = "I" THEN ConsumeRegister(P).nib_count
    ELSE IF IsAlpha(P.cur_char) THEN ConsumeInstr(P).nib_count
    ELSE IF P.cur_char = DEC_LIT_CHAR THEN ConsumeDecLit(P).lexer.nib_count
    ELSE IF P.cur_char = HEX_LIT_CHAR THEN ConsumeHexLit(P).nib_count
    ELSE IF P.cur_char = BIN_LIT_CHAR THEN ConsumeBinLit(P).nib_count
    ELSE ConsumeLabel(P).lexer.nib_count + 2

\* C26: after each nibble-costing construct, two or more pending nibbles
\* advance the address by half of them, rounded down, and leave none
\* pending; fewer leave the address alone and stay pending. So the pending
\* count is always 0 or 1 and the address never decreases.
C26_AddressUpdate ==
    /\ [](prep.nib_count \in {0, 1})
    /\ [][prep'.addr >= prep.addr]_vars
    /\ [][(pc = "prep" /\ Costs(prep) /\ pc' # "failed") =>
              IF Pending(prep) >= 2
              THEN prep'.addr = prep.addr + (Pending(prep) \div 2) /\ prep'.nib_count = 0
              ELSE prep'.addr = prep.addr /\ prep'.nib_count = Pending(prep)]_vars

\* one nibble is carried after the address has advanced
C26_NibbleCarried == pc = "prep" /\ prep.nib_count = 1 /\ prep.addr > MEM_START

\* the number of hex digits of v: the fewest nibbles that can hold v
RECURSIVE HexDigits(_)
HexDigits(v) == IF v < 16 THEN 1 ELSE 1 + HexDigits(v \div 16)

\* the digits of the decimal literal at the lexer's position
DecDigits(P) == PrepDigitLoop(PrepAdvance(P), <<>>, FALSE).str

\* C27: the nibbles Pass 1 adds for a decimal literal of value 0..65535 are
\* the fewest nibbles that can hold the value, its number of hex digits.
C27_DecimalNibbles ==
    [][(pc = "prep" /\ prep.cur_char = DEC_LIT_CHAR /\ pc' # "failed"
        /\ RadixVal(DecDigits(prep), 10) <= U16Max) =>
           Pending(prep) - prep.nib_count = HexDigits(RadixVal(DecDigits(prep), 10))]_vars

\* Pass 2 is about to emit the literal the text starts with
AtFirstLiteral ==
    /\ pc = "assemble"
    /\ text[1] \in {DEC_LIT_CHAR, HEX_LIT_CHAR, BIN_LIT_CHAR}
    /\ IsLitType(asm.cur_token.ttype)
    /\ binary = <<>>
    /\ marks = <<>>

\* the bytes by which Pass 1 advances the address for that literal
PassOneBytes == PrepStep(PrepLexerNew(text)).lexer.addr - MEM_START

\* C28: a decimal or hex literal at top level is emitted as a 2-byte word
\* when its value is above 0xFF and as one byte otherwise, a binary literal
\* as one byte; and Pass 2 emits as many bytes for the literal as Pass 1
\* advanced the address for it.
C28_LiteralBytes ==
    [][(AtFirstLiteral /\ pc' # "failed") =>
           /\ BinaryLen(binary') =
                  IF asm.cur_token.ttype # "BinLit" /\ asm.cur_token.value.num > U8Max
                  THEN 2 ELSE 1
           /\ BinaryLen(binary') = PassOneBytes]_vars

\* what the lexer would return next
NextToken == AsmGetNextToken(asm.lexer)

\* eat as first stated: the token is replaced exactly when the kinds agree
EatReplaces(ttype) ==
    Eat(asm, ttype) =
        [asm |-> [lexer |-> NextToken.lexer, cur_token |-> NextToken.tok], err |-> NoErr]

EatRejects(ttype) ==
    Eat(asm, ttype) =
        [asm |-> asm,
         err |-> ParseError(ttype, asm.cur_token.ttype, asm.lexer.line, asm.lexer.col)]

RECURSIVE Loosen(_)
Loosen(s) ==
    IF s = <<>> THEN <<>>
    ELSE IF Head(s) = "." THEN <<" ", ".", " ">> \o Loosen(Tail(s))
    ELSE IF Head(s) = "," THEN <<" ", ",">> \o Loosen(Tail(s))
    ELSE <<Head(s)>> \o Loosen(Tail(s))

\* the labels PrepLexer returns for a text, each with the lexer's address
RECURSIVE PrepDefs(_, _)
PrepDefsNext(r, acc) ==
    IF r.err.kind # "None" \/ r.tok.ttype = "EndOfInput" THEN acc
    ELSE IF r.tok.ttype = "LblDef"
    THEN PrepDefs(r.lexer, Append(acc, [label |-> r.tok.value.text, addr |-> r.lexer.addr]))
    ELSE PrepDefs(r.lexer, acc)
PrepDefs(P, acc) == PrepDefsNext(PrepGetNextToken(P), acc)

\* C30: a text and the same text with more whitespace between its tokens,
\* when both give Pass 2 the same tokens, give every label the same Pass 1
\* address.
C30_LayoutIndependent ==
    (pc = "prepped" /\ LexAll(AsmLexerNew(Loosen(text)), <<>>).tokens = AsmTokens) =>
        PrepDefs(PrepLexerNew(Loosen(text)), <<>>) = defs

====
